---- MODULE Spec2Model ----
(***************************************************************************)
(* Model of the gobuster invocation layer: run_gobuster_auto as defined in *)
(* mcp_server.py and, as a near duplicate, in Learnings/tool.py.  One call *)
(* is followed from entry to its return or raise; the gobuster processes   *)
(* and the file system are the environment.  Text is kept as strings and   *)
(* the conversions the code applies to it (splitlines, join, lower, the    *)
(* status regular expression, str) are computed character by character.    *)
(***************************************************************************)
EXTENDS Integers, Sequences, FiniteSets, TLC

(***************************************************************************)
(* Bounds of the model.                                                    *)
(***************************************************************************)
\* process exit codes range over 0..MaxExitCode
MaxExitCode == 2

(***************************************************************************)
(* Python values.                                                          *)
(***************************************************************************)
None == [none |-> TRUE]

Some(v) == [some |-> v]

\* the two definitions of run_gobuster_auto
Impls == {"mcp_server", "tool"}

(***************************************************************************)
(* Text helpers.                                                           *)
(***************************************************************************)
Char(s, k) == SubSeq(s, k, k)

UpperAlpha == "ABCDEFGHIJKLMNOPQRSTUVWXYZ"

LowerAlpha == "abcdefghijklmnopqrstuvwxyz"

Digits == "0123456789"

DigitMap == [c \in {Char(Digits, k) : k \in 1..10} |->
                (CHOOSE k \in 1..10 : Char(Digits, k) = c) - 1]

IsDigit(c) == c \in DOMAIN DigitMap

DigitVal(c) == DigitMap[c]

\* the characters matched by \s
WhiteSpace == {" ", "\t", "\n", "\r", "\f"}

\* the lower-case form of each upper-case letter
LowerMap ==
    [c \in {Char(UpperAlpha, k) : k \in 1..26} |->
        Char(LowerAlpha, CHOOSE k \in 1..26 : Char(UpperAlpha, k) = c)]

LowerChar(c) == IF c \in DOMAIN LowerMap THEN LowerMap[c] ELSE c

IsWordChar(c) ==
    \/ IsDigit(c)
    \/ c = "_"
    \/ c \in DOMAIN LowerMap
    \/ c \in {Char(LowerAlpha, k) : k \in 1..26}

RECURSIVE LowerFrom(_, _)
LowerFrom(s, k) ==
    IF k > Len(s) THEN "" ELSE LowerChar(Char(s, k)) \o LowerFrom(s, k + 1)

\* str.lower()
Lower(s) == LowerFrom(s, 1)

\* needle in hay
Contains(hay, needle) ==
    \E k \in 1..(Len(hay) - Len(needle) + 1) :
        SubSeq(hay, k, k + Len(needle) - 1) = needle

RECURSIVE SplitFrom(_, _, _)
SplitFrom(s, k, cur) ==
    IF k > Len(s)
    THEN (IF cur = "" THEN <<>> ELSE <<cur>>)
    ELSE IF Char(s, k) = "\n"
         THEN <<cur>> \o SplitFrom(s, k + 1, "")
         ELSE SplitFrom(s, k + 1, cur \o Char(s, k))

\* str.splitlines(): no empty last line after a final line break
SplitLines(s) == SplitFrom(s, 1, "")

RECURSIVE JoinFrom(_, _, _)
JoinFrom(sep, seq, k) ==
    IF k > Len(seq) THEN ""
    ELSE IF k = Len(seq) THEN seq[k]
    ELSE seq[k] \o sep \o JoinFrom(sep, seq, k + 1)

\* sep.join(seq)
Join(sep, seq) == JoinFrom(sep, seq, 1)

RECURSIVE Str(_)
\* str(n) for n >= 0
Str(n) == IF n < 10 THEN Char(Digits, n + 1)
          ELSE Str(n \div 10) \o Char(Digits, (n % 10) + 1)

\* int(s) for a string of three digits
Int3(s) == 100 * DigitVal(Char(s, 1)) + 10 * DigitVal(Char(s, 2)) + DigitVal(Char(s, 3))

\* x in list
InList(x, list) == \E k \in 1..Len(list) : list[k] = x

RECURSIVE SkipClass(_, _, _)
\* first position at or after k whose character is outside class (greedy star)
SkipClass(s, k, class) ==
    IF k <= Len(s) /\ Char(s, k) \in class THEN SkipClass(s, k + 1, class) ELSE k

ThreeDigitsAt(s, j) ==
    /\ j + 2 <= Len(s)
    /\ \A d \in 0..2 : IsDigit(Char(s, j + d))

(***************************************************************************)
(* The output filter of _run.                                              *)
(***************************************************************************)
\* mcp_server.py: (\bstatus[:\s]*)(\d{3}), IGNORECASE, matched at position p;
\* the value of group 2, or -1 when there is no match at p
StatusMatchServer(line, p) ==
    IF /\ p + 5 <= Len(line)
       /\ Lower(SubSeq(line, p, p + 5)) = "status"
       /\ (p = 1 \/ ~IsWordChar(Char(line, p - 1)))
    THEN LET j == SkipClass(line, p + 6, {":"} \cup WhiteSpace)
         IN  IF ThreeDigitsAt(line, j) THEN Int3(SubSeq(line, j, j + 2)) ELSE -1
    ELSE -1

\* Learnings/tool.py: Status:\s*(\d{3}), IGNORECASE, matched at position p
StatusMatchTool(line, p) ==
    IF /\ p + 6 <= Len(line)
       /\ Lower(SubSeq(line, p, p + 6)) = "status:"
    THEN LET j == SkipClass(line, p + 7, WhiteSpace)
         IN  IF ThreeDigitsAt(line, j) THEN Int3(SubSeq(line, j, j + 2)) ELSE -1
    ELSE -1

StatusMatch(im, line, p) ==
    IF im = "mcp_server" THEN StatusMatchServer(line, p) ELSE StatusMatchTool(line, p)

\* the rightmost match taken instead of the leftmost
StatusSearchRightmost(im, line) ==
    LET hits == {p \in 1..Len(line) : StatusMatch(im, line, p) # -1}
    IN  IF hits = {} THEN -1
        ELSE StatusMatch(im, line, CHOOSE p \in hits : \A q \in hits : p >= q)

\* status_re.search(line): the leftmost match; st, or -1 when m is None
StatusSearch(im, line) ==
    LET hits == {p \in 1..Len(line) : StatusMatch(im, line, p) # -1}
    IN  IF hits = {} THEN -1
        ELSE StatusMatch(im, line, CHOOSE p \in hits : \A q \in hits : p <= q)

\* whether _run prints this captured line
LinePrinted(im, line, pso, statuses) ==
    IF pso
    THEN LET st == StatusSearch(im, line)
         IN  st # -1 /\ InList(st, statuses)
    ELSE TRUE

\* the lines _run prints for one process, in order
RunPrints(im, ls, pso, statuses) ==
    SelectSeq(ls, LAMBDA line : LinePrinted(im, line, pso, statuses))

(***************************************************************************)
(* Classification of a finished candidate.                                 *)
(***************************************************************************)
\* mcp_server.py: retcode in (0, 1)
AcceptedServer(rc) == rc \in {0, 1}

\* Learnings/tool.py: retcode == 0
AcceptedTool(rc) == rc = 0

Accepted(im, rc) == IF im = "mcp_server" THEN AcceptedServer(rc) ELSE AcceptedTool(rc)

MarkersServer ==
    { "wordlist (-w): must be specified",
      "url/domain (-u): must be specified",
      "unknown command",
      "invalid subcommand",
      "error parsing",
      "no such file or directory" }

\* the wordlist marker alone
MarkersToolWordlistOnly ==
    { "wordlist (-w): must be specified" }

MarkersTool ==
    { "wordlist (-w): must be specified",
      "url/domain (-u): must be specified" }

Markers(im) == IF im = "mcp_server" THEN MarkersServer ELSE MarkersTool

\* every failure taken for a syntax mismatch
IsMismatchAlways(im, ls) == TRUE

\* any(kw in joined ...) with joined = "\n".join(lines).lower()
IsMismatch(im, ls) ==
    LET joined == Lower(Join("\n", ls))
    IN  \E kw \in Markers(im) : Contains(joined, kw)

(***************************************************************************)
(* Command construction.                                                   *)
(***************************************************************************)
PositionalCmd(m, t, w, th, extra) ==
    <<"gobuster", m, "-u", t, "-w", w, "-t", Str(th)>> \o extra

\* extra_args put before the fixed flags
FlagCmdExtraFirst(m, t, w, th, extra) ==
    <<"gobuster", "-m", m>> \o extra \o <<"-u", t, "-w", w, "-t", Str(th)>>

FlagCmd(m, t, w, th, extra) ==
    <<"gobuster", "-m", m, "-u", t, "-w", w, "-t", Str(th)>> \o extra

\* the auto-detect branch left out
AttemptsWithoutFallback(force, pos, flag) ==
    IF force = Some(TRUE) THEN <<flag>> ELSE <<pos>>

\* the flag-style candidate tried first
AttemptsFlagFirst(force, pos, flag) ==
    IF force = Some(TRUE) THEN <<flag>>
    ELSE IF force = Some(FALSE) THEN <<pos>>
    ELSE <<flag, pos>>

\* both candidates whatever the preference
AttemptsAlwaysBoth(force, pos, flag) == <<pos, flag>>

Attempts(force, pos, flag) ==
    IF force = Some(TRUE) THEN <<flag>>
    ELSE IF force = Some(FALSE) THEN <<pos>>
    ELSE <<pos, flag>>

\* the flag-style tag whatever ran
WhichOfAlwaysFlag(c, pos) == "-m-flag"

\* "positional" if cmd == positional_cmd else "-m-flag"
WhichOf(c, pos) == IF c = pos THEN "positional" ELSE "-m-flag"

\* the forced preference ignored
WhichExhaustedIgnoringForce(att, force) ==
    IF Len(att) > 1 THEN "positional_then_flag" ELSE "positional"

\* the compound tag for any exhausted list
WhichExhaustedAlwaysCompound(att, force) == "positional_then_flag"

\* the compound tag never given
WhichExhaustedNeverCompound(att, force) ==
    IF force = Some(TRUE) THEN "-m-flag" ELSE "positional"

\* the tag of the exhausted path
WhichExhausted(att, force) ==
    IF Len(att) > 1 THEN "positional_then_flag"
    ELSE IF force = Some(TRUE) THEN "-m-flag" ELSE "positional"

DefaultStatuses == <<200, 204, 301, 302, 307, 403>>

DEFAULT_GOBUSTER_THREADS == 20

DEFAULT_GOBUSTER_MODE == "dir"

\* the initial content of the module-level list
DEFAULT_GOBUSTER_EXTRA_ARGS == <<"-e", "-r">>

\* an extra_args argument that is the module-level list itself, not a copy
DefaultList == [ref |-> "DEFAULT_GOBUSTER_EXTRA_ARGS"]

\* the content of the list extra_args is bound to
ExtraArgsValue(ea, shared) == IF ea = DefaultList THEN shared ELSE ea.some

\* the objects that outlive a call; owner 0 is the module
DefaultListObject == [name |-> "DEFAULT_GOBUSTER_EXTRA_ARGS", owner |-> 0]

StdoutObject == [name |-> "sys.stdout", owner |-> 0]

\* the list object extra_args is bound to in call id
ExtraArgsObject(ea, id) ==
    IF ea = DefaultList THEN DefaultListObject ELSE [name |-> "extra_args", owner |-> id]

Read(id, obj) == [call |-> id, obj |-> obj, how |-> "read"]

Write(id, obj) == [call |-> id, obj |-> obj, how |-> "write"]

(***************************************************************************)
(* Exceptions.                                                             *)
(***************************************************************************)
ToolNotFound ==
    [type |-> "RuntimeError",
     msg  |-> "gobuster not found in PATH. Install it or add to PATH."]

WordlistNotFound(w) ==
    [type |-> "FileNotFoundError", msg |-> "Wordlist not found: " \o w]

\* raised by subprocess.run when the executable cannot be found
SpawnFailed ==
    [type |-> "FileNotFoundError",
     msg  |-> "[Errno 2] No such file or directory: 'gobuster'"]

(***************************************************************************)
(* The inputs of a call and the behaviours of the environment.             *)
(***************************************************************************)
Modes == {"dir"}

Targets == {"http://t"}

\* "-" is stdin, "common.txt" a regular file, "wordlists" a directory,
\* "missing.txt" does not exist
Wordlists == {"-", "", "common.txt", "missing.txt", "wordlists"}

InitialFs ==
    [w \in Wordlists |->
        IF w = "common.txt" THEN "file"
        ELSE IF w \in {"wordlists", ""} THEN "dir"
        ELSE "absent"]

ExtraArgs == {None, Some(<<"-e", "-r">>)}

StatusLists == {None, Some(<<200, 403>>)}

ForceFlags == {None, Some(TRUE), Some(FALSE)}

ExitCodes == 0..MaxExitCode

\* what a gobuster process may write to stdout and stderr
Outputs ==
    { "",
      "/admin Status: 403\n/x Status: 404\n",
      "/a (Status: 404) -> /b (Status: 200)\nstatus 200\nxStatus: 200\n",
      "Error: unknown command \"dir\" for \"gobuster\"\n",
      "WordList (-w): Must be specified\n",
      "unknown command\nwordlist (-w): must be specified\n/r Status: 200",
      "URL/Domain (-u): Must be specified\n",
      "Error: invalid subcommand\n",
      "Error parsing arguments\n",
      "open x: No such file or directory\n",
      "dial tcp: connection refused\n" }

(***************************************************************************)
(* State.                                                                  *)
(***************************************************************************)
VARIABLES
    impl,                \* which definition of run_gobuster_auto is called
    mode, target, wordlist, threads,
    extra_args, print_success_only, include_statuses, force_use_m_flag,
    gobuster_in_path,    \* shutil.which("gobuster") is not None
    fs,                  \* path -> "file" | "dir" | "absent"
    pc,                  \* position of the call
    positional_cmd, flag_cmd, attempts,
    i, cmd,              \* the loop variables
    proc,                \* the child process being waited for, or None
    retcode, lines,      \* result of the last _run
    last_ret, last_lines, last_out,
    result,              \* the returned tuple, or None
    exc,                 \* the exception raised, or None
    stdout,              \* what has been printed
    runs,                \* the processes spawned so far and what they did
    self,                \* which call the variables above belong to: 1 or 2
    parked,              \* the frame of the other call of a pair, or None
    default_extra_args,  \* the content of DEFAULT_GOBUSTER_EXTRA_ARGS
    accessed,            \* which call has read or written which shared object
    wrapper              \* the frame of run_gobuster, or None for a direct call

params == <<impl, mode, target, wordlist, threads, print_success_only, force_use_m_flag>>

locals == <<positional_cmd, flag_cmd, attempts, i, cmd, retcode, lines,
            last_ret, last_lines, last_out>>

env == <<gobuster_in_path, fs>>

other == <<self, parked, wrapper>>

vars == <<params, extra_args, include_statuses, env, pc, locals, proc,
          result, exc, stdout, runs, other, default_extra_args, accessed>>

Init ==
    /\ impl \in Impls
    /\ mode \in Modes
    /\ target \in Targets
    /\ wordlist \in Wordlists
    /\ threads = DEFAULT_GOBUSTER_THREADS
    /\ extra_args \in ExtraArgs
    /\ print_success_only \in BOOLEAN
    /\ include_statuses \in StatusLists
    /\ force_use_m_flag \in ForceFlags
    /\ gobuster_in_path \in BOOLEAN
    /\ fs = InitialFs
    /\ pc = "call"
    /\ positional_cmd = <<>>
    /\ flag_cmd = <<>>
    /\ attempts = <<>>
    /\ i = 0
    /\ cmd = <<>>
    /\ proc = None
    /\ retcode = None
    /\ lines = <<>>
    /\ last_ret = 1
    /\ last_lines = <<>>
    /\ last_out = ""
    /\ result = None
    /\ exc = None
    /\ stdout = <<>>
    /\ runs = <<>>
    /\ self = 1
    /\ parked = None
    /\ default_extra_args = DEFAULT_GOBUSTER_EXTRA_ARGS
    /\ accessed = {}
    /\ wrapper = None

(***************************************************************************)
(* run_gobuster_auto, statement by statement.                              *)
(***************************************************************************)
\* whether the wordlist check raises
WordlistRejected(w, files) ==
    /\ w # "-"
    /\ w # ""
    /\ files[w] # "file"

\* the wordlist check made first
CheckToolAfterWordlist ==
    /\ pc = "call"
    /\ IF WordlistRejected(wordlist, fs)
       THEN pc' = "raised" /\ exc' = WordlistNotFound(wordlist)
       ELSE IF gobuster_in_path
       THEN pc' = "defaults" /\ exc' = exc
       ELSE pc' = "raised" /\ exc' = ToolNotFound
    /\ UNCHANGED <<other, default_extra_args, accessed>>
    /\ UNCHANGED <<params, extra_args, include_statuses, env, locals, proc,
                   result, stdout, runs>>

\* the search-path check left out
CheckToolSkipped ==
    /\ pc = "call"
    /\ pc' = "defaults"
    /\ UNCHANGED <<other, default_extra_args, accessed>>
    /\ UNCHANGED <<params, extra_args, include_statuses, env, locals, proc,
                   result, exc, stdout, runs>>

\* if shutil.which("gobuster") is None: raise RuntimeError(...)
CheckTool ==
    /\ pc = "call"
    /\ IF gobuster_in_path
       THEN pc' = "defaults" /\ exc' = exc
       ELSE pc' = "raised" /\ exc' = ToolNotFound
    /\ UNCHANGED <<other, default_extra_args, accessed>>
    /\ UNCHANGED <<params, extra_args, include_statuses, env, locals, proc,
                   result, stdout, runs>>

\* the defaults of extra_args and include_statuses
Defaults ==
    /\ pc = "defaults"
    /\ extra_args' = IF extra_args = None THEN Some(<<>>) ELSE extra_args
    /\ include_statuses' =
           IF include_statuses = None THEN Some(DefaultStatuses) ELSE include_statuses
    /\ pc' = "validate"
    /\ UNCHANGED <<other, default_extra_args, accessed>>
    /\ UNCHANGED <<params, env, locals, proc, result, exc, stdout, runs>>

\* if wordlist != "-" and wordlist: ... raise FileNotFoundError(...)
ValidateWordlist ==
    /\ pc = "validate"
    /\ IF WordlistRejected(wordlist, fs)
       THEN pc' = "raised" /\ exc' = WordlistNotFound(wordlist)
       ELSE pc' = "construct" /\ exc' = exc
    /\ UNCHANGED <<other, default_extra_args, accessed>>
    /\ UNCHANGED <<params, extra_args, include_statuses, env, locals, proc,
                   result, stdout, runs>>

\* the vectors built by extending the list extra_args is bound to
ConstructInPlace ==
    /\ pc = "construct"
    /\ LET extra == ExtraArgsValue(extra_args, default_extra_args)
       IN  /\ positional_cmd' = PositionalCmd(mode, target, wordlist, threads, extra)
           /\ flag_cmd' = FlagCmd(mode, target, wordlist, threads, extra)
    /\ attempts' = Attempts(force_use_m_flag, positional_cmd', flag_cmd')
    /\ last_ret' = 1
    /\ last_lines' = <<>>
    /\ last_out' = ""
    /\ pc' = "loop"
    /\ default_extra_args' =
           IF extra_args = DefaultList
           THEN Append(default_extra_args, "-m")
           ELSE default_extra_args
    /\ accessed' = accessed \cup {Write(self, ExtraArgsObject(extra_args, self))}
    /\ UNCHANGED other
    /\ UNCHANGED <<params, extra_args, include_statuses, env, i, cmd, retcode,
                   lines, proc, result, exc, stdout, runs>>

\* positional_cmd, flag_cmd, attempts and the last_* variables; the two
\* concatenations read the list extra_args is bound to and make new lists
Construct ==
    /\ pc = "construct"
    /\ LET extra == ExtraArgsValue(extra_args, default_extra_args)
       IN  /\ positional_cmd' = PositionalCmd(mode, target, wordlist, threads, extra)
           /\ flag_cmd' = FlagCmd(mode, target, wordlist, threads, extra)
    /\ attempts' = Attempts(force_use_m_flag, positional_cmd', flag_cmd')
    /\ last_ret' = 1
    /\ last_lines' = <<>>
    /\ last_out' = ""
    /\ pc' = "loop"
    /\ accessed' = accessed \cup {Read(self, ExtraArgsObject(extra_args, self))}
    /\ UNCHANGED <<other, default_extra_args>>
    /\ UNCHANGED <<params, extra_args, include_statuses, env, i, cmd, retcode,
                   lines, proc, result, exc, stdout, runs>>

\* for i, cmd in enumerate(attempts, start=1): print("Executing:", ...)
NextAttempt ==
    /\ pc = "loop"
    /\ i < Len(attempts)
    /\ i' = i + 1
    /\ cmd' = attempts[i + 1]
    /\ stdout' = Append(stdout, "Executing: " \o Join(" ", attempts[i + 1]))
    /\ accessed' = accessed \cup {Write(self, StdoutObject)}
    /\ pc' = "spawn"
    /\ UNCHANGED <<other, default_extra_args>>
    /\ UNCHANGED <<params, extra_args, include_statuses, env, positional_cmd,
                   flag_cmd, attempts, retcode, lines, last_ret, last_lines,
                   last_out, proc, result, exc, runs>>

\* subprocess.run(cmd, ...) starts the child, or fails to find the executable
Spawn ==
    /\ pc = "spawn"
    /\ IF gobuster_in_path
       THEN /\ proc' = Some(cmd)
            /\ pc' = "wait"
            /\ exc' = exc
       ELSE /\ proc' = proc
            /\ pc' = "raised"
            /\ exc' = SpawnFailed
    /\ UNCHANGED <<other, default_extra_args, accessed>>
    /\ UNCHANGED <<params, extra_args, include_statuses, env, locals, result,
                   stdout, runs>>

\* the printed lines returned in place of the captured ones
RunReturningPrinted(im, rc, out, pso, statuses) ==
    LET printed == RunPrints(im, SplitLines(out), pso, statuses)
    IN  [returncode |-> rc, lines |-> printed, out |-> out, printed |-> printed]

\* _run(cmd) for a child that exits with rc after writing out:
\* what it returns and what it prints
Run(im, rc, out, pso, statuses) ==
    LET ls == SplitLines(out)
    IN  [returncode |-> rc, lines |-> ls, out |-> out,
         printed |-> RunPrints(im, ls, pso, statuses)]

\* the status lists a call can hold after the defaults
EffectiveStatusLists == {DefaultStatuses} \cup {sl.some : sl \in StatusLists \ {None}}

\* Run, evaluated once for every input of the model
RunMemo ==
    [im \in Impls, rc \in ExitCodes, out \in Outputs, pso \in BOOLEAN,
     statuses \in EffectiveStatusLists |-> Run(im, rc, out, pso, statuses)]

\* the child exits with rc after writing out; _run splits and prints its
\* output and returns
ProcExitWith(rc, out) ==
    /\ pc = "wait"
    /\ LET r == RunMemo[impl, rc, out, print_success_only, include_statuses.some]
       IN  /\ retcode' = r.returncode
           /\ lines' = r.lines
           /\ last_ret' = r.returncode
           /\ last_lines' = r.lines
           /\ last_out' = r.out
           /\ stdout' = stdout \o r.printed
           /\ accessed' = IF r.printed = <<>> THEN accessed
                          ELSE accessed \cup {Write(self, StdoutObject)}
           /\ runs' = Append(runs, [cmd |-> cmd, returncode |-> rc, out |-> out,
                                    printed |-> r.printed])
    /\ proc' = None
    /\ pc' = "classify"
    /\ UNCHANGED <<other, default_extra_args>>
    /\ UNCHANGED <<params, extra_args, include_statuses, env, positional_cmd,
                   flag_cmd, attempts, i, cmd, result, exc>>

\* the child terminates
ProcExit == \E rc \in ExitCodes, out \in Outputs : ProcExitWith(rc, out)

\* IsMismatch, evaluated once for every captured output of the model
IsMismatchMemo ==
    [im \in Impls, ls \in {SplitLines(out) : out \in Outputs} |-> IsMismatch(im, ls)]

MismatchNote(im, k) ==
    IF im = "mcp_server"
    THEN "[Invocation " \o Str(k) \o " returned argument/parse error - trying next invocation if available]"
    ELSE "[Invocation " \o Str(k) \o " returned the missing-arg error; will try next invocation if available]"

\* the body of the loop after _run: accept, fall back, or give up
Classify ==
    /\ pc = "classify"
    /\ IF Accepted(impl, retcode)
       THEN /\ result' = <<retcode, lines, WhichOf(cmd, positional_cmd)>>
            /\ pc' = "returned"
            /\ stdout' = stdout
       ELSE IF IsMismatchMemo[impl, lines]
       THEN /\ stdout' = Append(stdout, MismatchNote(impl, i))
            /\ pc' = "loop"
            /\ result' = result
       ELSE /\ result' = <<retcode, lines, WhichOf(cmd, positional_cmd)>>
            /\ pc' = "returned"
            /\ stdout' = stdout
    /\ accessed' = IF stdout' = stdout THEN accessed
                   ELSE accessed \cup {Write(self, StdoutObject)}
    /\ UNCHANGED <<other, default_extra_args>>
    /\ UNCHANGED <<params, extra_args, include_statuses, env, locals, proc, exc, runs>>

\* after the loop: the last exit code with the lines of the first run
ExhaustedWithFirstLines ==
    /\ pc = "loop"
    /\ i >= Len(attempts)
    /\ result' = <<last_ret, SplitLines(runs[1].out), WhichExhausted(attempts, force_use_m_flag)>>
    /\ pc' = "returned"
    /\ UNCHANGED <<other, default_extra_args, accessed>>
    /\ UNCHANGED <<params, extra_args, include_statuses, env, locals, proc, exc,
                   stdout, runs>>

\* after the loop: return last_ret, last_lines, which
Exhausted ==
    /\ pc = "loop"
    /\ i >= Len(attempts)
    /\ result' = <<last_ret, last_lines, WhichExhausted(attempts, force_use_m_flag)>>
    /\ pc' = "returned"
    /\ UNCHANGED <<other, default_extra_args, accessed>>
    /\ UNCHANGED <<params, extra_args, include_statuses, env, locals, proc, exc,
                   stdout, runs>>

(***************************************************************************)
(* The environment, while the call is in progress.                         *)
(***************************************************************************)
Running == pc \notin {"returned", "raised"}

\* gobuster is removed from the search path
RemoveGobuster ==
    /\ Running
    /\ gobuster_in_path
    /\ gobuster_in_path' = FALSE
    /\ UNCHANGED <<other, default_extra_args, accessed>>
    /\ UNCHANGED <<params, extra_args, include_statuses, fs, pc, locals, proc,
                   result, exc, stdout, runs>>

\* the wordlist file is deleted
RemoveWordlist ==
    /\ Running
    /\ fs[wordlist] = "file"
    /\ fs' = [fs EXCEPT ![wordlist] = "absent"]
    /\ UNCHANGED <<other, default_extra_args, accessed>>
    /\ UNCHANGED <<params, extra_args, include_statuses, gobuster_in_path, pc,
                   locals, proc, result, exc, stdout, runs>>

Next ==
    \/ CheckTool
    \/ Defaults
    \/ ValidateWordlist
    \/ Construct
    \/ NextAttempt
    \/ Spawn
    \/ ProcExit
    \/ Classify
    \/ Exhausted
    \/ RemoveGobuster
    \/ RemoveWordlist

Spec == Init /\ [][Next]_vars

\* the steps of the thread that runs the call
CallStep ==
    \/ CheckTool
    \/ Defaults
    \/ ValidateWordlist
    \/ Construct
    \/ NextAttempt
    \/ Spawn
    \/ Classify
    \/ Exhausted

\* the thread keeps running, and every spawned process terminates:
\* subprocess.run has no timeout and returns when the child exits.
\* Each of these steps moves pc.
LiveSpec == Spec /\ WF_pc(CallStep) /\ WF_pc(ProcExit)

(***************************************************************************)
(* Two calls.  Every call runs in a thread of its own with its own frame   *)
(* of parameters and locals; the variables above are the frame of the      *)
(* thread that is running, parked holds the frame of the other thread.     *)
(* The search path, the file system, sys.stdout and the module-level list  *)
(* belong to no frame.                                                     *)
(***************************************************************************)
\* the frame of the running thread
ActiveFrame ==
    [impl |-> impl, mode |-> mode, target |-> target,
     wordlist |-> wordlist, threads |-> threads,
     extra_args |-> extra_args,
     print_success_only |-> print_success_only,
     include_statuses |-> include_statuses,
     force_use_m_flag |-> force_use_m_flag, pc |-> pc,
     positional_cmd |-> positional_cmd, flag_cmd |-> flag_cmd,
     attempts |-> attempts, i |-> i, cmd |-> cmd, proc |-> proc,
     retcode |-> retcode, lines |-> lines, last_ret |-> last_ret,
     last_lines |-> last_lines, last_out |-> last_out,
     result |-> result, exc |-> exc, runs |-> runs, self |-> self]

\* the frame of a call that has not started
NewCall(im, m, t, w, th, extra, pso, statuses, force, id) ==
    [impl |-> im, mode |-> m, target |-> t, wordlist |-> w, threads |-> th,
     extra_args |-> extra, print_success_only |-> pso,
     include_statuses |-> statuses, force_use_m_flag |-> force,
     pc |-> "call", positional_cmd |-> <<>>, flag_cmd |-> <<>>,
     attempts |-> <<>>, i |-> 0, cmd |-> <<>>, proc |-> None,
     retcode |-> None, lines |-> <<>>, last_ret |-> 1, last_lines |-> <<>>,
     last_out |-> "", result |-> None, exc |-> None, runs |-> <<>>,
     self |-> id]

\* the running thread is in frame f
Holds(f) ==
    /\ impl = f.impl
    /\ mode = f.mode
    /\ target = f.target
    /\ wordlist = f.wordlist
    /\ threads = f.threads
    /\ extra_args = f.extra_args
    /\ print_success_only = f.print_success_only
    /\ include_statuses = f.include_statuses
    /\ force_use_m_flag = f.force_use_m_flag
    /\ pc = f.pc
    /\ positional_cmd = f.positional_cmd
    /\ flag_cmd = f.flag_cmd
    /\ attempts = f.attempts
    /\ i = f.i
    /\ cmd = f.cmd
    /\ proc = f.proc
    /\ retcode = f.retcode
    /\ lines = f.lines
    /\ last_ret = f.last_ret
    /\ last_lines = f.last_lines
    /\ last_out = f.last_out
    /\ result = f.result
    /\ exc = f.exc
    /\ runs = f.runs
    /\ self = f.self

\* the thread of frame f runs next
Resume(f) ==
    /\ impl' = f.impl
    /\ mode' = f.mode
    /\ target' = f.target
    /\ wordlist' = f.wordlist
    /\ threads' = f.threads
    /\ extra_args' = f.extra_args
    /\ print_success_only' = f.print_success_only
    /\ include_statuses' = f.include_statuses
    /\ force_use_m_flag' = f.force_use_m_flag
    /\ pc' = f.pc
    /\ positional_cmd' = f.positional_cmd
    /\ flag_cmd' = f.flag_cmd
    /\ attempts' = f.attempts
    /\ i' = f.i
    /\ cmd' = f.cmd
    /\ proc' = f.proc
    /\ retcode' = f.retcode
    /\ lines' = f.lines
    /\ last_ret' = f.last_ret
    /\ last_lines' = f.last_lines
    /\ last_out' = f.last_out
    /\ result' = f.result
    /\ exc' = f.exc
    /\ runs' = f.runs
    /\ self' = f.self

\* the other thread is scheduled
Switch ==
    /\ parked # None
    /\ parked' = Some(ActiveFrame)
    /\ Resume(parked.some)
    /\ UNCHANGED <<env, stdout, default_extra_args, accessed, wrapper>>

\* the second call is made when the first has ended
CallAgain ==
    /\ pc \in {"returned", "raised"}
    /\ parked # None
    /\ parked.some.pc = "call"
    /\ Switch

\* the call run_gobuster makes for a target (asyncio.to_thread)
WrapperCall(t, id) ==
    NewCall("mcp_server", DEFAULT_GOBUSTER_MODE, t, "common.txt",
            DEFAULT_GOBUSTER_THREADS, DefaultList, FALSE, None, None, id)

\* what a gobuster process writes in the runs of a pair of calls
PairOutputs ==
    { "/admin Status: 403\n/x Status: 404\n",
      "WordList (-w): Must be specified\n" }

PairProcExit == \E rc \in ExitCodes, out \in PairOutputs : ProcExitWith(rc, out)

SharedInit ==
    /\ gobuster_in_path = TRUE
    /\ fs = InitialFs
    /\ stdout = <<>>
    /\ default_extra_args = DEFAULT_GOBUSTER_EXTRA_ARGS
    /\ accessed = {}
    /\ wrapper = None

\* two run_gobuster requests being served at the same time
ConcurrentInit ==
    /\ Holds(WrapperCall("http://t", 1))
    /\ parked = Some(WrapperCall("http://u", 2))
    /\ SharedInit

ConcurrentNext ==
    \/ CallStep
    \/ PairProcExit
    \/ Switch

ConcurrentSpec == ConcurrentInit /\ [][ConcurrentNext]_vars

\* the same request made twice, the second call after the first has ended
RepeatInit ==
    /\ \E im \in Impls, force \in ForceFlags :
         /\ Holds(NewCall(im, "dir", "http://t", "common.txt",
                          DEFAULT_GOBUSTER_THREADS, None, FALSE, None, force, 1))
         /\ parked = Some(NewCall(im, "dir", "http://t", "common.txt",
                                  DEFAULT_GOBUSTER_THREADS, None, FALSE, None, force, 2))
    /\ SharedInit

RepeatNext ==
    \/ CallStep
    \/ PairProcExit
    \/ CallAgain

RepeatSpec == RepeatInit /\ [][RepeatNext]_vars

\* what a gobuster process writes in the runs that compare the two
\* definitions: result lines, a marker both know, a marker only
\* mcp_server.py knows
AgreeOutputs ==
    { "/admin Status: 403\n/x Status: 404\n",
      "WordList (-w): Must be specified\n",
      "URL/Domain (-u): Must be specified\n",
      "Error: unknown command \"dir\" for \"gobuster\"\n" }

AgreeProcExit == \E rc \in ExitCodes, out \in AgreeOutputs : ProcExitWith(rc, out)

\* one request given first to the definition of mcp_server.py, then to the
\* definition of Learnings/tool.py, in the same environment
AgreeInit ==
    /\ \E w \in {"common.txt", "missing.txt"}, pso \in BOOLEAN, force \in ForceFlags :
         /\ Holds(NewCall("mcp_server", "dir", "http://t", w,
                          DEFAULT_GOBUSTER_THREADS, None, pso, None, force, 1))
         /\ parked = Some(NewCall("tool", "dir", "http://t", w,
                                  DEFAULT_GOBUSTER_THREADS, None, pso, None, force, 2))
    /\ gobuster_in_path \in BOOLEAN
    /\ fs = InitialFs
    /\ stdout = <<>>
    /\ default_extra_args = DEFAULT_GOBUSTER_EXTRA_ARGS
    /\ accessed = {}
    /\ wrapper = None

AgreeNext ==
    \/ CallStep
    \/ AgreeProcExit
    \/ CallAgain

AgreeSpec == AgreeInit /\ [][AgreeNext]_vars

(***************************************************************************)
(* run_gobuster, the MCP tool: it chooses a wordlist, calls                *)
(* run_gobuster_auto in a thread and turns what comes back into text.      *)
(***************************************************************************)
COMMON_WORDLIST_CANDIDATES ==
    << "/usr/share/wordlists/dirbuster/directory-list-2.3-medium.txt",
       "/usr/share/wordlists/dirb/common.txt",
       "/usr/share/wordlists/common.txt",
       "common.txt" >>

\* _select_wordlist(): the first candidate that exists and is a file
select_wordlist(files) ==
    LET found == {k \in 1..Len(COMMON_WORDLIST_CANDIDATES) :
                     files[COMMON_WORDLIST_CANDIDATES[k]] = "file"}
    IN  IF found = {} THEN None
        ELSE Some(COMMON_WORDLIST_CANDIDATES[CHOOSE k \in found : \A n \in found : k <= n])

NoWordlistReply ==
    "Error: no default wordlist found on server. Please install a wordlist or place 'common.txt' "
    \o "in the working directory. Candidates checked: "
    \o Join(", ", COMMON_WORDLIST_CANDIDATES)

\* header + body
ResultReply(res, w) ==
    "Exit code: " \o Str(res[1]) \o "\nInvocation: " \o res[3]
        \o "\nWordlist: " \o w \o "\n\n"
        \o (IF res[2] # <<>> THEN Join("\n", res[2]) ELSE "(no output)")

\* only RuntimeError is caught
ExceptClausesRuntimeOnly ==
    << [cls |-> "RuntimeError", prefix |-> "Runtime Error: "] >>

\* the except clauses of run_gobuster, in order
ExceptClauses ==
    << [cls |-> "FileNotFoundError", prefix |-> "Error: "],
       [cls |-> "RuntimeError", prefix |-> "Runtime Error: "],
       [cls |-> "Exception", prefix |-> "Unexpected Error: "] >>

\* isinstance(e, cls) for the exceptions of the model
IsInstance(e, cls) == cls = "Exception" \/ e.type = cls

\* the clauses that catch e
Catching(e) ==
    {k \in 1..Len(ExceptClauses) : IsInstance(e, ExceptClauses[k].cls)}

\* the text returned for e by the first clause that catches it
ErrorReply(e) ==
    LET k == CHOOSE c \in Catching(e) : \A n \in Catching(e) : c <= n
    IN  ExceptClauses[k].prefix \o e.msg

\* wordlist = _select_wordlist(); if not wordlist: return "Error: ..."
\* else run_gobuster_auto is called
SelectWordlist ==
    /\ wrapper # None
    /\ wrapper.some.pc = "select"
    /\ LET w == select_wordlist(fs)
       IN  IF w = None
           THEN /\ wrapper' = Some([pc |-> "replied", wordlist |-> None,
                                    reply |-> Some(NoWordlistReply)])
                /\ UNCHANGED <<wordlist, pc>>
           ELSE /\ wrapper' = Some([pc |-> "await", wordlist |-> w, reply |-> None])
                /\ wordlist' = w.some
                /\ pc' = "call"
    /\ UNCHANGED <<impl, mode, target, threads, print_success_only, force_use_m_flag,
                   extra_args, include_statuses, env, locals, proc, result, exc,
                   stdout, runs, self, parked, default_extra_args, accessed>>

\* the await ends: the result is formatted, or an except clause makes the
\* text, or the exception goes on to the caller of run_gobuster
Reply ==
    /\ wrapper # None
    /\ wrapper.some.pc = "await"
    /\ pc \in {"returned", "raised"}
    /\ wrapper' =
          IF pc = "returned"
          THEN Some([wrapper.some EXCEPT !.pc = "replied",
                        !.reply = Some(ResultReply(result, wrapper.some.wordlist.some))])
          ELSE IF Catching(exc) # {}
          THEN Some([wrapper.some EXCEPT !.pc = "replied", !.reply = Some(ErrorReply(exc))])
          ELSE Some([wrapper.some EXCEPT !.pc = "raised"])
    /\ UNCHANGED <<params, extra_args, include_statuses, env, pc, locals, proc,
                   result, exc, stdout, runs, self, parked, default_extra_args,
                   accessed>>

\* a file is deleted while run_gobuster is being served
RemoveFile ==
    /\ wrapper # None
    /\ wrapper.some.pc \in {"select", "await"}
    /\ \E p \in DOMAIN fs :
         /\ fs[p] = "file"
         /\ fs' = [fs EXCEPT ![p] = "absent"]
    /\ UNCHANGED <<params, extra_args, include_statuses, gobuster_in_path, pc,
                   locals, proc, result, exc, stdout, runs, other,
                   default_extra_args, accessed>>

\* what a gobuster process writes in the runs of the tool: as for a pair of
\* calls, or nothing
ToolOutputs == PairOutputs \cup {""}

ToolProcExit == \E rc \in ExitCodes, out \in ToolOutputs : ProcExitWith(rc, out)

\* a request to the tool; before the wordlist is chosen there is no call
ToolInit ==
    /\ Holds([WrapperCall("http://t", 1) EXCEPT !.pc = "idle"])
    /\ parked = None
    /\ wrapper = Some([pc |-> "select", wordlist |-> None, reply |-> None])
    /\ gobuster_in_path \in BOOLEAN
    /\ fs \in [{COMMON_WORDLIST_CANDIDATES[k] : k \in 1..Len(COMMON_WORDLIST_CANDIDATES)}
                 -> {"file", "dir", "absent"}]
    /\ stdout = <<>>
    /\ default_extra_args = DEFAULT_GOBUSTER_EXTRA_ARGS
    /\ accessed = {}

ToolNext ==
    \/ SelectWordlist
    \/ CallStep
    \/ ToolProcExit
    \/ Reply
    \/ RemoveGobuster
    \/ RemoveFile

ToolSpec == ToolInit /\ [][ToolNext]_vars

(***************************************************************************)
(* Vocabulary of the properties.                                           *)
(***************************************************************************)
Auto == force_use_m_flag = None

Returned == pc = "returned"

Raised == pc = "raised"

\* the dialect of an argument vector, read off the vector itself
IsFlagStyle(c) == Len(c) >= 2 /\ c[2] = "-m"

IsLegacyStyle(c) == Len(c) >= 2 /\ c[2] # "-m"

TagOf(c) == IF IsFlagStyle(c) THEN "-m-flag" ELSE "positional"

\* run k has been classified by the loop body
Classified(k) == k < Len(runs) \/ (k = Len(runs) /\ pc # "classify")

\* the six syntax-mismatch markers
SyntaxMismatchMarkers ==
    { "wordlist (-w): must be specified",
      "url/domain (-u): must be specified",
      "unknown command",
      "invalid subcommand",
      "error parsing",
      "no such file or directory" }

HasMismatchMarker(out) == \E kw \in SyntaxMismatchMarkers : Contains(Lower(out), kw)

\* the call is about to run, is running, or has tried to run the flag-style candidate
FlagStyleIsNext ==
    \/ pc = "loop" /\ i < Len(attempts) /\ IsFlagStyle(attempts[i + 1])
    \/ pc \in {"spawn", "wait"} /\ IsFlagStyle(cmd)
    \/ pc = "raised" /\ exc = SpawnFailed /\ IsFlagStyle(cmd)

FlagStyleTried == \E k \in 1..Len(runs) : IsFlagStyle(runs[k].cmd)

(***************************************************************************)
(* C1.  In auto-detect mode with a wordlist that exists, whenever the      *)
(* legacy positional invocation exits with code 0 or 1, whatever it wrote, *)
(* the call returns the tag "positional" and the flag-style candidate is   *)
(* never executed.  Stated for both definitions of run_gobuster_auto;      *)
(* Learnings/tool.py accepts exit code 0 only.                             *)
(***************************************************************************)
LegacyAccepted ==
    /\ Auto
    /\ InitialFs[wordlist] = "file"
    /\ Len(runs) >= 1
    /\ IsLegacyStyle(runs[1].cmd)
    /\ runs[1].returncode \in {0, 1}

C1_LegacySuccessStops ==
    LegacyAccepted =>
        /\ Len(runs) = 1
        /\ pc \in {"classify", "returned"}
        /\ Returned => result = <<runs[1].returncode, result[2], "positional">>

(***************************************************************************)
(* C2.  As claimed: for every request, when the legacy invocation exits    *)
(* with a code other than 0 or 1 and its output contains "wordlist (-w):   *)
(* must be specified", the flag-style candidate is executed next.          *)
(***************************************************************************)
LegacyMissingWordlist ==
    /\ Len(runs) >= 1
    /\ IsLegacyStyle(runs[1].cmd)
    /\ runs[1].returncode \notin {0, 1}
    /\ Contains(runs[1].out, "wordlist (-w): must be specified")
    /\ Classified(1)

C2_AnyRequestFallsBack ==
    LegacyMissingWordlist => (FlagStyleIsNext \/ FlagStyleTried)

\* C2 as amended: in auto-detect mode, when the legacy invocation exits with
\* a code other than 0 or 1 and its output contains "wordlist (-w): must be
\* specified", the flag-style candidate is the next one the call tries to run.
C2_AutoFallsBack ==
    (Auto /\ LegacyMissingWordlist) => (FlagStyleIsNext \/ FlagStyleTried)

C2_Witness ==
    /\ Auto
    /\ LegacyMissingWordlist
    /\ Len(runs) = 2
    /\ IsFlagStyle(runs[2].cmd)

(***************************************************************************)
(* C3.  For every request whose wordlist is not "-" and is not an existing *)
(* regular file, the call raises FileNotFoundError naming the path and     *)
(* spawns no process.  Stated for the calls that pass the gobuster check,  *)
(* which comes first (C4).                                                 *)
(***************************************************************************)
BadWordlist == wordlist # "-" /\ InitialFs[wordlist] # "file"

C3_BadWordlistFailsBeforeSpawn ==
    (BadWordlist /\ pc # "call" /\ exc # ToolNotFound) =>
        /\ runs = <<>>
        /\ proc = None
        /\ pc \in {"defaults", "validate", "raised"}
        /\ Raised => exc = WordlistNotFound(wordlist)

(***************************************************************************)
(* C4.  If gobuster is absent from the search path when the call starts,   *)
(* the call raises the RuntimeError naming gobuster and spawns no process, *)
(* for every request and every invocation preference.                      *)
(***************************************************************************)
C4_ToolNotFoundFirst ==
    [][(pc = "call" /\ ~gobuster_in_path /\ pc' # "call") =>
          /\ pc' = "raised"
          /\ exc' = ToolNotFound
          /\ Contains(exc'.msg, "gobuster")
          /\ runs' = <<>>
          /\ proc' = None]_vars

C4_Witness ==
    /\ Raised
    /\ exc = ToolNotFound
    /\ runs = <<>>
    /\ force_use_m_flag = Some(TRUE)
    /\ InitialFs[wordlist] = "file"

(***************************************************************************)
(* C5.  In auto-detect mode, if both candidates exit with code 2 and       *)
(* output containing "unknown command", the call returns exit code 2, the  *)
(* lines of the second (flag-style) run and the tag "positional_then_flag".*)
(***************************************************************************)
BothUnknownCommand ==
    /\ Auto
    /\ Len(runs) = 2
    /\ \A k \in 1..2 : /\ runs[k].returncode = 2
                       /\ Contains(runs[k].out, "unknown command")
    /\ Classified(2)

C5_ExhaustedResult ==
    BothUnknownCommand =>
        /\ pc \in {"loop", "returned"}
        /\ IsLegacyStyle(runs[1].cmd)
        /\ IsFlagStyle(runs[2].cmd)
        /\ Returned => result = <<2, SplitLines(runs[2].out), "positional_then_flag">>

C5_Witness ==
    /\ BothUnknownCommand
    /\ Returned
    /\ runs[1].out # runs[2].out
    /\ SplitLines(runs[1].out) # result[2]

(***************************************************************************)
(* C6.  A candidate that exits with a code other than 0 or 1 and whose     *)
(* output has none of the syntax-mismatch markers ends the call: the call  *)
(* returns that candidate's exit code, lines and dialect tag, and no later *)
(* candidate is run, even when one is left.                                *)
(***************************************************************************)
TerminalFailure(k) ==
    /\ runs[k].returncode \notin {0, 1}
    /\ ~HasMismatchMarker(runs[k].out)
    /\ Classified(k)

C6_TerminalFailureStops ==
    \A k \in 1..Len(runs) :
        TerminalFailure(k) =>
            /\ k = Len(runs)
            /\ Returned
            /\ result = <<runs[k].returncode, SplitLines(runs[k].out), TagOf(runs[k].cmd)>>

C6_Witness ==
    /\ Auto
    /\ Len(runs) = 1
    /\ TerminalFailure(1)
    /\ Len(attempts) = 2
    /\ Returned
    /\ result[3] = "positional"

(***************************************************************************)
(* C7.  As claimed: with the preference forced to flag-style the result    *)
(* never carries the legacy tag, and the legacy candidate is never         *)
(* constructed or executed.                                                *)
(***************************************************************************)
ForcedFlag == force_use_m_flag = Some(TRUE)

LegacyNeverRun ==
    /\ \A k \in 1..Len(runs) : ~IsLegacyStyle(runs[k].cmd)
    /\ \A k \in 1..Len(attempts) : ~IsLegacyStyle(attempts[k])
    /\ ~IsLegacyStyle(cmd)
    /\ proc # None => ~IsLegacyStyle(proc.some)

C7_LegacyNeverConstructed ==
    ForcedFlag =>
        /\ Returned => result[3] # "positional"
        /\ LegacyNeverRun
        /\ positional_cmd = <<>>

\* C7 as amended: with the preference forced to flag-style the result never
\* carries the legacy tag and the legacy candidate is never put in the
\* attempts list nor executed; its argument vector is still built.
C7_LegacyNeverRun ==
    ForcedFlag =>
        /\ Returned => result[3] # "positional"
        /\ LegacyNeverRun

C7_Witness ==
    /\ ForcedFlag
    /\ Returned
    /\ Len(runs) = 1
    /\ runs[1].returncode = 2
    /\ HasMismatchMarker(runs[1].out)
    /\ IsLegacyStyle(positional_cmd)
    /\ result[3] = "-m-flag"

(***************************************************************************)
(* C8.  The lines returned to the caller are all the captured lines of the *)
(* returned candidate, whatever print_success_only and the status list     *)
(* are: the filter decides what is printed, never what is returned.        *)
(***************************************************************************)
C8_ReturnsAllLines ==
    Returned => result[2] = SplitLines(runs[Len(runs)].out)

C8_Witness ==
    /\ Returned
    /\ print_success_only
    /\ include_statuses = Some(<<200, 403>>)
    /\ runs[Len(runs)].printed = <<"/admin Status: 403">>
    /\ result[2] = <<"/admin Status: 403", "/x Status: 404">>

(***************************************************************************)
(* C9.  As claimed: with print_success_only false every captured line is   *)
(* printed; with it true a captured line is printed if and only if it      *)
(* contains a status marker ("status" in any letter case, optional colons  *)
(* and whitespace, three digits) whose value is in the status list.        *)
(***************************************************************************)
\* the text of line from p on is "status" as a token, then colons and
\* whitespace up to j, then three digits
StatusMarkerAt(line, p, j) ==
    /\ p + 5 <= Len(line)
    /\ Lower(SubSeq(line, p, p + 5)) = "status"
    /\ (p = 1 \/ ~IsWordChar(Char(line, p - 1)))
    /\ j >= p + 6
    /\ \A q \in (p + 6)..(j - 1) : Char(line, q) \in ({":"} \cup WhiteSpace)
    /\ ThreeDigitsAt(line, j)

\* the marker of Learnings/tool.py: "status:" anywhere, whitespace, three digits
ColonMarkerAt(line, p, j) ==
    /\ p + 6 <= Len(line)
    /\ Lower(SubSeq(line, p, p + 6)) = "status:"
    /\ j >= p + 7
    /\ \A q \in (p + 7)..(j - 1) : Char(line, q) \in WhiteSpace
    /\ ThreeDigitsAt(line, j)

MarkerOf(im, line, p, j) ==
    IF im = "mcp_server" THEN StatusMarkerAt(line, p, j) ELSE ColonMarkerAt(line, p, j)

Positions(line) == 1..Len(line)

SomeMarkerAllowed(line, statuses) ==
    \E p \in Positions(line), j \in Positions(line) :
        /\ StatusMarkerAt(line, p, j)
        /\ InList(Int3(SubSeq(line, j, j + 2)), statuses)

LeftmostMarkerAllowed(im, line, statuses) ==
    \E p \in Positions(line), j \in Positions(line) :
        /\ MarkerOf(im, line, p, j)
        /\ \A p2 \in 1..(p - 1), j2 \in Positions(line) : ~MarkerOf(im, line, p2, j2)
        /\ InList(Int3(SubSeq(line, j, j + 2)), statuses)

\* every captured line of the model
CapturedLines ==
    UNION {{SplitLines(out)[n] : n \in 1..Len(SplitLines(out))} : out \in Outputs}

\* the two predicates, evaluated once for every line of the model
SomeMarkerAllowedMemo ==
    [line \in CapturedLines, statuses \in EffectiveStatusLists |->
        SomeMarkerAllowed(line, statuses)]

LeftmostMarkerAllowedMemo ==
    [im \in Impls, line \in CapturedLines, statuses \in EffectiveStatusLists |->
        LeftmostMarkerAllowed(im, line, statuses)]

C9_PrintedIffSomeMarkerAllowed ==
    \A k \in 1..Len(runs) :
        runs[k].printed =
            SelectSeq(SplitLines(runs[k].out),
                      LAMBDA line : \/ ~print_success_only
                                    \/ SomeMarkerAllowedMemo[line, include_statuses.some])

\* C9 as amended: with print_success_only false every captured line is
\* printed; with it true a captured line is printed if and only if it has a
\* status marker and the value of the leftmost marker of the line is in the
\* status list.  In mcp_server.py a marker is "status" in any letter case at
\* a word boundary, any number of colons and whitespace, then three digits
\* (more digits may follow); in Learnings/tool.py it is "status:" in any
\* letter case, whitespace, then three digits.
C9_PrintedIffLeftmostMarkerAllowed ==
    \A k \in 1..Len(runs) :
        runs[k].printed =
            SelectSeq(SplitLines(runs[k].out),
                      LAMBDA line : \/ ~print_success_only
                                    \/ LeftmostMarkerAllowedMemo[impl, line, include_statuses.some])

C9_Witness ==
    /\ impl = "mcp_server"
    /\ print_success_only
    /\ Len(runs) >= 1
    /\ SplitLines(runs[1].out) =
           <<"/a (Status: 404) -> /b (Status: 200)", "status 200", "xStatus: 200">>
    /\ runs[1].printed = <<"status 200">>

(***************************************************************************)
(* C10.  The call raises only for the two pre-flight failures (gobuster    *)
(* not found, wordlist not found), both before any process is spawned;     *)
(* after the pre-flight checks every outcome is returned as a result, also *)
(* when gobuster or the wordlist disappears before a spawn.                *)
(***************************************************************************)
C10_OnlyPreflightRaises ==
    /\ Raised =>
          /\ exc \in {ToolNotFound, WordlistNotFound(wordlist)}
          /\ runs = <<>>
          /\ cmd = <<>>
    /\ Len(runs) >= 1 => exc = None

(***************************************************************************)
(* C11.  The retry is bounded: one call spawns at most as many processes   *)
(* as it has candidates, 2 in auto-detect mode and 1 when a style is       *)
(* forced, and runs no candidate more than once.                           *)
(***************************************************************************)
\* the processes spawned so far: the terminated ones and the live one
SpawnedCmds == [k \in 1..Len(runs) |-> runs[k].cmd] \o
               (IF proc = None THEN <<>> ELSE <<proc.some>>)

CandidateCount == IF Auto THEN 2 ELSE 1

C11_RetryBounded ==
    /\ Len(SpawnedCmds) <= CandidateCount
    /\ pc \notin {"call", "defaults", "validate", "construct", "raised"}
          => Len(attempts) = CandidateCount
    /\ \A k, n \in 1..Len(SpawnedCmds) : k # n => SpawnedCmds[k] # SpawnedCmds[n]

C11_Witness ==
    /\ Auto
    /\ Returned
    /\ Len(runs) = 2
    /\ runs[1].cmd # runs[2].cmd

(***************************************************************************)
(* C12.  When a style is forced and its one candidate exits with a code    *)
(* other than 0 or 1 and a syntax-mismatch marker, the call returns that   *)
(* candidate's exit code and lines with the tag of that one dialect, never *)
(* the compound tag, after one process and without raising.                *)
(***************************************************************************)
ForcedMismatch ==
    /\ ~Auto
    /\ Len(runs) >= 1
    /\ runs[1].returncode \notin {0, 1}
    /\ HasMismatchMarker(runs[1].out)
    /\ Classified(1)

C12_ForcedMismatchIsPlainResult ==
    ForcedMismatch =>
        /\ Len(runs) = 1
        /\ proc = None
        /\ exc = None
        /\ \/ pc = "loop" /\ i = Len(attempts)
           \/ /\ Returned
              /\ result = <<runs[1].returncode, SplitLines(runs[1].out), TagOf(runs[1].cmd)>>
              /\ result[3] \in {"positional", "-m-flag"}

C12_Witness ==
    /\ ForcedMismatch
    /\ Returned
    /\ force_use_m_flag = Some(FALSE)
    /\ impl = "mcp_server"
    /\ Contains(Lower(runs[1].out), "invalid subcommand")
    /\ result[3] = "positional"

(***************************************************************************)
(* C15.  Within one call the candidates run one after the other in the     *)
(* order legacy, then flag-style: a candidate's process is started only    *)
(* when every earlier process has terminated and been classified, so at    *)
(* most one child of the call is alive at any time.                        *)
(***************************************************************************)
\* the children of the call that have been started and have not terminated
LiveChildren == Len(SpawnedCmds) - Len(runs)

C15_OneAfterTheOther ==
    /\ (Auto /\ attempts # <<>>) =>
          /\ Len(attempts) = 2
          /\ IsLegacyStyle(attempts[1])
          /\ IsFlagStyle(attempts[2])
    /\ \A k \in 1..Len(SpawnedCmds) : SpawnedCmds[k] = attempts[k]
    /\ LiveChildren <= 1
    /\ pc \in {"spawn", "wait"} =>
          /\ Len(runs) = i - 1
          /\ \A k \in 1..Len(runs) : runs[k].returncode # 0
    /\ LiveChildren = 1 => pc = "wait"

C15_Witness ==
    /\ Auto
    /\ pc = "wait"
    /\ Len(runs) = 1
    /\ IsLegacyStyle(runs[1].cmd)
    /\ IsFlagStyle(proc.some)

(***************************************************************************)
(* C16.  A candidate that has run leads to the next candidate if and only  *)
(* if its exit code is neither 0 nor 1, its output contains, letter case   *)
(* ignored, one of the six markers, and a next candidate exists.  Stated   *)
(* for both definitions of run_gobuster_auto.                              *)
(***************************************************************************)
\* after run k the call goes on to candidate k + 1
TriesNext(k) ==
    \/ i > k
    \/ i = k /\ pc = "loop" /\ i < Len(attempts)

C16_FallbackIffMismatch ==
    \A k \in 1..Len(runs) :
        Classified(k) =>
            (TriesNext(k) <=> /\ runs[k].returncode \notin {0, 1}
                              /\ HasMismatchMarker(runs[k].out)
                              /\ k < Len(attempts))

(***************************************************************************)
(* C17.  The legacy vector is gobuster, mode, -u, target, -w, wordlist,    *)
(* -t, threads and then extra_args; the flag-style vector is the same with *)
(* -m put before mode; extra_args come last, in order and unchanged.       *)
(***************************************************************************)
Constructed == positional_cmd # <<>>

\* the decimal digits of threads, for the thread counts of the model
ThreadsText == IF threads = 20 THEN "20" ELSE "?"

GivenExtraArgs == extra_args.some

C17_ArgumentVectors ==
    /\ Constructed =>
          /\ SubSeq(positional_cmd, 1, 8) =
                 <<"gobuster", mode, "-u", target, "-w", wordlist, "-t", ThreadsText>>
          /\ SubSeq(flag_cmd, 1, 9) =
                 <<"gobuster", "-m", mode, "-u", target, "-w", wordlist, "-t", ThreadsText>>
          /\ SubSeq(positional_cmd, 9, Len(positional_cmd)) = GivenExtraArgs
          /\ SubSeq(flag_cmd, 10, Len(flag_cmd)) = GivenExtraArgs
          /\ flag_cmd = <<positional_cmd[1], "-m">> \o Tail(positional_cmd)
    /\ \A k \in 1..Len(SpawnedCmds) : SpawnedCmds[k] \in {positional_cmd, flag_cmd}

C17_Witness ==
    /\ Len(runs) = 2
    /\ runs[1].cmd = <<"gobuster", "dir", "-u", "http://t", "-w", "common.txt", "-t", "20", "-e", "-r">>
    /\ runs[2].cmd = <<"gobuster", "-m", "dir", "-u", "http://t", "-w", "common.txt", "-t", "20", "-e", "-r">>

(***************************************************************************)
(* C20.  In every returned result the exit code and the lines are those of *)
(* one and the same run, the last one of the call; a line of an earlier,   *)
(* discarded run is among the returned lines only if the last run wrote    *)
(* that line too.                                                          *)
(***************************************************************************)
LinesOfRun(k) == SplitLines(runs[k].out)

Elements(seq) == {seq[n] : n \in 1..Len(seq)}

C20_CodeAndLinesOfLastRun ==
    Returned =>
        /\ Len(runs) >= 1
        /\ result[1] = runs[Len(runs)].returncode
        /\ result[2] = LinesOfRun(Len(runs))
        /\ \A k \in 1..(Len(runs) - 1) :
               Elements(LinesOfRun(k)) \cap Elements(result[2])
                   \subseteq Elements(LinesOfRun(Len(runs)))

C20_Witness ==
    /\ Returned
    /\ Len(runs) = 2
    /\ result[3] = "positional_then_flag"
    /\ Elements(LinesOfRun(1)) \cap Elements(LinesOfRun(2)) = {}
    /\ LinesOfRun(1) # <<>>
    /\ result[2] = LinesOfRun(2)
    /\ result[2] # <<>>

(***************************************************************************)
(* C19.  For every candidate whose process is spawned, one line            *)
(* "Executing: " followed by the argument vector joined by single spaces   *)
(* is on the operator stream before the spawn; there is no such line for   *)
(* a candidate that is never executed, and none when a pre-flight check    *)
(* fails.  Between the echo and the spawn that follows it (pc = "spawn")   *)
(* there is one echo more than there are processes.                        *)
(***************************************************************************)
ExecutingLine(c) == "Executing: " \o Join(" ", c)

IsEcho(line) == Len(line) >= 11 /\ SubSeq(line, 1, 11) = "Executing: "

EchoLines == SelectSeq(stdout, IsEcho)

PreflightFailed == Raised /\ exc # SpawnFailed

C19_EchoIffExecuted ==
    /\ Len(EchoLines) = Len(SpawnedCmds) + (IF pc = "spawn" THEN 1 ELSE 0)
    /\ \A k \in 1..Len(SpawnedCmds) : EchoLines[k] = ExecutingLine(SpawnedCmds[k])
    /\ PreflightFailed => stdout = <<>>

(***************************************************************************)
(* C18.  If every spawned process terminates, every call eventually        *)
(* returns a result or raises a pre-flight error; and while a spawned      *)
(* process has not terminated the call stays blocked on it and starts no   *)
(* other candidate.                                                        *)
(***************************************************************************)
BlockedOnChild ==
    (proc # None /\ proc' # None) =>
        /\ proc' = proc
        /\ pc = "wait"
        /\ pc' = "wait"
        /\ i' = i
        /\ runs' = runs

C18_ReturnsOrPreflightError ==
    /\ <>(Returned \/ PreflightFailed)
    /\ [][BlockedOnChild]_<<pc, proc, i, runs>>

(***************************************************************************)
(* Two calls: vocabulary.                                                  *)
(***************************************************************************)
Calls == {1, 2}

\* the frame of call c
Call(c) == IF self = c THEN ActiveFrame ELSE parked.some

Ended(f) == f.pc \in {"returned", "raised"}

BothEnded == \A c \in Calls : Ended(Call(c))

LegacyRuns(f) == {k \in 1..Len(f.runs) : IsLegacyStyle(f.runs[k].cmd)}

\* every process the two calls ran in the legacy dialect exited 0
LegacyAlwaysExitsZero ==
    \A c \in Calls : \A k \in LegacyRuns(Call(c)) : Call(c).runs[k].returncode = 0

SameTagAndCode ==
    /\ \A c \in Calls : Call(c).pc = "returned"
    /\ Call(1).result[1] = Call(2).result[1]
    /\ Call(1).result[3] = Call(2).result[3]

(***************************************************************************)
(* C13.  As claimed: when the same request is made twice and every legacy  *)
(* run of the binary exits 0, both calls return the same tag and the same  *)
(* exit code, whatever the outputs.                                        *)
(***************************************************************************)
C13_SameTagAndCodeForAnyRequest ==
    (BothEnded /\ LegacyAlwaysExitsZero) => SameTagAndCode

(***************************************************************************)
(* C13, amended.  When the same request, one that does not force the       *)
(* flag style, is made twice and every legacy run of the binary exits 0,   *)
(* both calls return exit code 0 with the tag "positional", whatever the   *)
(* outputs.  (A request that forces the flag style never runs the legacy   *)
(* dialect.)                                                               *)
(***************************************************************************)
C13_SameTagAndCodeUnlessFlagForced ==
    (BothEnded /\ LegacyAlwaysExitsZero /\ force_use_m_flag # Some(TRUE)) =>
        /\ SameTagAndCode
        /\ \A c \in Calls : /\ Call(c).result[1] = 0
                            /\ Call(c).result[3] = "positional"
                            /\ Len(Call(c).runs) = 1

C13_Witness ==
    /\ BothEnded
    /\ LegacyAlwaysExitsZero
    /\ Auto
    /\ SameTagAndCode
    /\ Call(1).result[2] # Call(2).result[2]
    /\ Call(1).result[3] = "positional"

(***************************************************************************)
(* Two concurrent calls: what a call's result is when it is computed from  *)
(* the call's own request and the outcomes of its own processes alone.     *)
(***************************************************************************)
OwnCommands(f) ==
    { PositionalCmd(f.mode, f.target, f.wordlist, f.threads, DEFAULT_GOBUSTER_EXTRA_ARGS),
      FlagCmd(f.mode, f.target, f.wordlist, f.threads, DEFAULT_GOBUSTER_EXTRA_ARGS) }

OwnOutcome(f) ==
    LET last == f.runs[Len(f.runs)]
        ls   == SplitLines(last.out)
    IN  IF Accepted(f.impl, last.returncode) \/ ~IsMismatchMemo[f.impl, ls]
        THEN <<last.returncode, ls, TagOf(last.cmd)>>
        ELSE <<last.returncode, ls,
               IF f.force_use_m_flag = None THEN "positional_then_flag"
               ELSE TagOf(last.cmd)>>

ResultIsOwn ==
    \A c \in Calls :
        /\ \A k \in 1..Len(Call(c).runs) : Call(c).runs[k].cmd \in OwnCommands(Call(c))
        /\ Call(c).pc = "returned" =>
               /\ Len(Call(c).runs) >= 1
               /\ Call(c).result = OwnOutcome(Call(c))

(***************************************************************************)
(* C14.  As claimed: each call's result is computed from its own request   *)
(* and its own processes' outcomes, and no object is read or written by    *)
(* one call and read or written by the other.                              *)
(***************************************************************************)
C14_NothingShared ==
    /\ ResultIsOwn
    /\ \A a \in accessed, b \in accessed : a.call # b.call => a.obj # b.obj

(***************************************************************************)
(* C14, amended.  Each call's result is computed from its own request and  *)
(* its own processes' outcomes, and no call writes a list another call     *)
(* uses: the module-level default list is read by both calls and never     *)
(* modified, and the only object both calls write is sys.stdout.           *)
(***************************************************************************)
C14_SharedOnlyReadOrStream ==
    /\ ResultIsOwn
    /\ default_extra_args = DEFAULT_GOBUSTER_EXTRA_ARGS
    /\ \A a \in accessed : a.obj = DefaultListObject => a.how = "read"
    /\ \A a \in accessed, b \in accessed :
           (a.call # b.call /\ a.obj = b.obj) =>
               \/ a.obj = StdoutObject
               \/ a.how = "read" /\ b.how = "read"

C14_Witness ==
    /\ BothEnded
    /\ Len(stdout) >= 2
    /\ stdout[1] = "Executing: gobuster dir -u http://t -w common.txt -t 20 -e -r"
    /\ stdout[2] = "Executing: gobuster dir -u http://u -w common.txt -t 20 -e -r"
    /\ Call(1).result = <<2, <<"WordList (-w): Must be specified">>, "positional_then_flag">>
    /\ Call(2).result = <<0, <<"/admin Status: 403", "/x Status: 404">>, "positional">>
    /\ {Read(1, DefaultListObject), Read(2, DefaultListObject)} \subseteq accessed

(***************************************************************************)
(* C21.  The returned tag is one of "positional", "-m-flag" and            *)
(* "positional_then_flag"; it is the compound tag if and only if the call  *)
(* is in auto-detect mode and both candidates were run and both were       *)
(* classified as a syntax mismatch; in every other result it is the        *)
(* dialect of the last candidate that was run.                             *)
(***************************************************************************)
\* run k was neither accepted nor a terminal failure: the loop went on
MismatchRun(k) ==
    /\ ~Accepted(impl, runs[k].returncode)
    /\ IsMismatchMemo[impl, SplitLines(runs[k].out)]

BothMismatched ==
    /\ Len(runs) = 2
    /\ IsLegacyStyle(runs[1].cmd)
    /\ IsFlagStyle(runs[2].cmd)
    /\ MismatchRun(1)
    /\ MismatchRun(2)

C21_TagInvariant ==
    Returned =>
        /\ result[3] \in {"positional", "-m-flag", "positional_then_flag"}
        /\ result[3] = "positional_then_flag" <=> (Auto /\ BothMismatched)
        /\ result[3] # "positional_then_flag" =>
               /\ Len(runs) >= 1
               /\ result[3] = TagOf(runs[Len(runs)].cmd)

C21_Witness ==
    /\ Returned
    /\ Auto
    /\ BothMismatched
    /\ impl = "tool"
    /\ result[3] = "positional_then_flag"

(***************************************************************************)
(* C23.  The search-path check comes before the wordlist check: a call     *)
(* made while gobuster is absent and the wordlist is missing too raises    *)
(* the RuntimeError of the missing tool, not the FileNotFoundError of the  *)
(* missing wordlist, and the wordlist error is raised only by a call that  *)
(* has passed the search-path check.                                       *)
(***************************************************************************)
BothMissing == ~gobuster_in_path /\ WordlistRejected(wordlist, fs)

C23_ToolCheckBeforeWordlistCheck ==
    [][/\ (pc = "call" /\ pc' # "call" /\ BothMissing) =>
              /\ pc' = "raised"
              /\ exc'.type = "RuntimeError"
              /\ exc' = ToolNotFound
              /\ exc' # WordlistNotFound(wordlist)
       /\ (exc = None /\ exc' = WordlistNotFound(wordlist)) => pc = "validate"]_vars

C23_Witness ==
    /\ Raised
    /\ exc = ToolNotFound
    /\ wordlist = "missing.txt"
    /\ BothMissing
    /\ runs = <<>>

(***************************************************************************)
(* C22.  Given the same request and the same process outcomes, none with   *)
(* exit code 1 and none with an output that contains "unknown command",    *)
(* "invalid subcommand", "error parsing" or "no such file or directory",   *)
(* the definitions of mcp_server.py and Learnings/tool.py run the same     *)
(* candidates in the same order and end alike: the same (exit code, lines, *)
(* tag), or the same exception.                                            *)
(***************************************************************************)
ServerOnlyMarkers ==
    {"unknown command", "invalid subcommand", "error parsing", "no such file or directory"}

\* the outputs of the model that have none of the four markers
SharedDomainOutputs ==
    {out \in Outputs : \A kw \in ServerOnlyMarkers : ~Contains(Lower(out), kw)}

InSharedDomain(f) ==
    \A k \in 1..Len(f.runs) :
        /\ f.runs[k].returncode # 1
        /\ f.runs[k].out \in SharedDomainOutputs

Shorter(a, b) == IF Len(a) <= Len(b) THEN Len(a) ELSE Len(b)

\* the k-th process of one call did what the k-th process of the other did
SameOutcomes ==
    \A k \in 1..Shorter(Call(1).runs, Call(2).runs) :
        /\ Call(1).runs[k].returncode = Call(2).runs[k].returncode
        /\ Call(1).runs[k].out = Call(2).runs[k].out

SameCandidates ==
    /\ Len(Call(1).runs) = Len(Call(2).runs)
    /\ \A k \in 1..Len(Call(1).runs) : Call(1).runs[k].cmd = Call(2).runs[k].cmd

C22_DefinitionsAgree ==
    (/\ BothEnded
     /\ Call(1).impl = "mcp_server"
     /\ Call(2).impl = "tool"
     /\ SameOutcomes
     /\ InSharedDomain(Call(1))
     /\ InSharedDomain(Call(2))) =>
        /\ SameCandidates
        /\ Call(1).pc = Call(2).pc
        /\ Call(1).result = Call(2).result
        /\ Call(1).exc = Call(2).exc

C22_Witness ==
    /\ BothEnded
    /\ Call(1).impl = "mcp_server"
    /\ Call(2).impl = "tool"
    /\ SameOutcomes
    /\ InSharedDomain(Call(1))
    /\ InSharedDomain(Call(2))
    /\ Len(Call(1).runs) = 2
    /\ Call(1).runs[1].out = "URL/Domain (-u): Must be specified\n"
    /\ Call(2).result = <<0, <<"/admin Status: 403", "/x Status: 404">>, "-m-flag">>

(***************************************************************************)
(* C24.  run_gobuster never raises to its caller.  When no wordlist        *)
(* candidate is a file it returns the error text and run_gobuster_auto is  *)
(* not called, so no process is spawned; when run_gobuster_auto raises,    *)
(* also for a wordlist deleted after it was chosen, it returns "Error: "   *)
(* or "Runtime Error: " followed by the message; when run_gobuster_auto    *)
(* returns, it returns the exit code, the tag, the wordlist and the lines  *)
(* as text.                                                                *)
(***************************************************************************)
ToolFrame == wrapper.some

Replied == ToolFrame.pc = "replied"

StartsWith(text, prefix) ==
    Len(text) >= Len(prefix) /\ SubSeq(text, 1, Len(prefix)) = prefix

NotCalled ==
    /\ pc = "idle"
    /\ runs = <<>>
    /\ proc = None
    /\ stdout = <<>>

ExpectedText ==
    "Exit code: " \o Str(result[1]) \o "\n"
        \o "Invocation: " \o result[3] \o "\n"
        \o "Wordlist: " \o wordlist \o "\n\n"
        \o (IF result[2] = <<>> THEN "(no output)" ELSE Join("\n", result[2]))

C24_ToolNeverRaises ==
    /\ ToolFrame.pc # "raised"
    /\ (Replied /\ ToolFrame.wordlist = None) =>
          /\ NotCalled
          /\ StartsWith(ToolFrame.reply.some, "Error: no default wordlist found on server.")
    /\ ToolFrame.wordlist = None => NotCalled
    /\ (Replied /\ Raised) =>
          /\ exc = ToolNotFound =>
                ToolFrame.reply.some =
                    "Runtime Error: gobuster not found in PATH. Install it or add to PATH."
          /\ exc = WordlistNotFound(wordlist) =>
                ToolFrame.reply.some = "Error: Wordlist not found: " \o wordlist
          /\ exc = SpawnFailed =>
                ToolFrame.reply.some = "Error: [Errno 2] No such file or directory: 'gobuster'"
          /\ exc \in {ToolNotFound, WordlistNotFound(wordlist), SpawnFailed}
    /\ (Replied /\ Returned) =>
          /\ ToolFrame.wordlist = Some(wordlist)
          /\ ToolFrame.reply.some = ExpectedText

C24_Witness ==
    /\ Replied
    /\ ToolFrame.wordlist = Some("/usr/share/wordlists/dirb/common.txt")
    /\ fs["/usr/share/wordlists/dirb/common.txt"] = "absent"
    /\ exc = WordlistNotFound("/usr/share/wordlists/dirb/common.txt")
    /\ ToolFrame.reply =
           Some("Error: Wordlist not found: /usr/share/wordlists/dirb/common.txt")
    /\ runs = <<>>

====
